---------------------------- MODULE Spec2Model ----------------------------
(***************************************************************************)
(* A model of src/bot.py: a Flask web front end and a discord.py bot that  *)
(* both relay questions to google.generativeai and send the answer back.   *)
(*                                                                         *)
(* A Python str is a sequence of characters, each a one-character string.  *)
(* TLA+ string literals cannot hold a backtick, so that one character is   *)
(* written BACKTICK.                                                       *)
(***************************************************************************)
EXTENDS Integers, Sequences, FiniteSets, TLC

VARIABLES
    GEMINI_API_KEY,     \* os.environ.get('GEMINI_API_KEY')            (line 21)
    DISCORD_BOT_TOKEN,  \* os.environ.get('DISCORD_BOT_TOKEN')         (line 24)
    main_pc,            \* position of the main thread in the script
    exit_line,          \* source line at which the process ended, 0 while alive
    exit_code,          \* the process's exit status, -1 while alive
    stdout,             \* the "Error: ..." lines printed by the start-up validation
    flask_thread,       \* the daemon thread of line 154
    discord_ready,      \* discord_client.is_ready()
    pending,            \* gateway MESSAGE_CREATE events not yet dispatched
    tasks,              \* the on_message coroutines the event loop holds
    web,                \* the Flask worker threads serving /ask_gemini_web
    health              \* the response of /health being delivered, or NoResponse

vars == <<GEMINI_API_KEY, DISCORD_BOT_TOKEN, main_pc, exit_line, exit_code, stdout,
          flask_thread, discord_ready, pending, tasks, web, health>>

----------------------------------------------------------------------------
(* Bounds of the model *)

MaxTasks == 2
MaxPending == 1
MaxWebThreads == 1
MaxInFlight == 2
MaxTextLen == 3981

(* Program constants *)

DiscordLimit == 2000
ChunkSize == 1990

----------------------------------------------------------------------------
(* Strings *)

BACKTICK == "U+0060"

\* src/bot.py:110  '!gemini '
PREFIX ==
    <<"!", "g", "e", "m", "i", "n", "i", " ">>

\* src/bot.py:114
USAGE_MSG ==
    <<"P", "l", "e", "a", "s", "e", " ", "p", "r", "o", "v", "i", "d", "e", " ", "a", " ",
      "q", "u", "e", "s", "t", "i", "o", "n", " ", "a", "f", "t", "e", "r", " ", BACKTICK,
      "!", "g", "e", "m", "i", "n", "i", BACKTICK, ".">>

\* src/bot.py:118  f-string text before {user_question}
THINKING_HEAD ==
    <<"T", "h", "i", "n", "k", "i", "n", "g", ".", ".", ".", " ", "(", "a", "s", "k", "i",
      "n", "g", " ", "G", "e", "m", "i", "n", "i", " ", "a", "b", "o", "u", "t", ":", " ",
      "'">>

\* src/bot.py:118  f-string text after {user_question}
THINKING_TAIL ==
    <<"'", ")">>

\* src/bot.py:124
TOO_LONG_MSG ==
    <<"R", "e", "s", "p", "o", "n", "s", "e", " ", "i", "s", " ", "t", "o", "o", " ", "l",
      "o", "n", "g", ".", " ", "S", "e", "n", "d", "i", "n", "g", " ", "i", "n", " ", "p",
      "a", "r", "t", "s", ":">>

\* src/bot.py:126  f-string text before {chunk}
FENCE_OPEN ==
    <<BACKTICK, BACKTICK, BACKTICK, "\n">>

\* src/bot.py:126  f-string text after {chunk}
FENCE_CLOSE ==
    <<"\n", BACKTICK, BACKTICK, BACKTICK>>

\* src/bot.py:132  f-string text before {e}
SORRY_HEAD ==
    <<"S", "o", "r", "r", "y", ",", " ", "a", "n", " ", "e", "r", "r", "o", "r", " ", "o",
      "c", "c", "u", "r", "r", "e", "d", " ", "w", "h", "i", "l", "e", " ", "t", "r", "y",
      "i", "n", "g", " ", "t", "o", " ", "g", "e", "t", " ", "a", " ", "r", "e", "s", "p",
      "o", "n", "s", "e", " ", "f", "r", "o", "m", " ", "G", "e", "m", "i", "n", "i", ":",
      " ">>

\* src/bot.py:67
NO_QUESTION ==
    <<"N", "o", " ", "q", "u", "e", "s", "t", "i", "o", "n", " ", "p", "r", "o", "v", "i",
      "d", "e", "d">>

\* src/bot.py:74  f-string text before {str(e)}
WEB_ERROR_HEAD ==
    <<"A", "n", " ", "e", "r", "r", "o", "r", " ", "o", "c", "c", "u", "r", "r", "e", "d",
      ":", " ">>

\* The characters of the completion texts of the model, repeated in this order.
TextChars == <<"a", "b", "c", "d", "e", "f", "g">>

\* What str.strip() removes (the whitespace the model's inputs can hold).
Whitespace == {" ", "\n"}

\* Python's None, kept apart from every str (no str holds this element).
None == <<"<None>">>

Min(a, b) == IF a < b THEN a ELSE b

\* s[a:b] for 0 <= a <= b: the characters at 0-based positions a .. b-1, cut at len(s).
Slice(s, a, b) == SubSeq(s, a + 1, Min(b, Len(s)))

\* s.startswith(p)
StartsWith(s, p) == Len(s) >= Len(p) /\ SubSeq(s, 1, Len(p)) = p

\* A variant of Strip for a handler that forgets .strip().
StripNothing(s) == s

\* s.strip()
Strip(s) ==
    LET keep == {i \in 1..Len(s) : s[i] \notin Whitespace}
    IN  IF keep = {} THEN <<>>
        ELSE SubSeq(s, CHOOSE i \in keep : \A j \in keep : i <= j,
                       CHOOSE i \in keep : \A j \in keep : i >= j)

\* A variant of Truthy that tests only 'is not None'.
TruthyNotNone(v) == v # None

\* bool(v) of a str or None: None and the empty str are falsy.
Truthy(v) == v # None /\ v # <<>>

\* list(range(0, stop, step))
Range(stop, step) == [k \in 1..((stop + step - 1) \div step) |-> (k - 1) * step]

\* The text of the given length the model's provider returns.
Pattern(n) == [i \in 1..n |-> TextChars[((i - 1) % Len(TextChars)) + 1]]

RECURSIVE Concat(_)
Concat(ss) == IF ss = <<>> THEN <<>> ELSE Head(ss) \o Concat(Tail(ss))

----------------------------------------------------------------------------
(* on_message, src/bot.py lines 103-132 *)

BOT == "discord_client.user"
USER == "someone else"

NoMessage == [author |-> "-", content |-> <<>>]

\* A coroutine slot of the event loop that holds no on_message call.
IdleTask ==
    [pc |-> "idle", message |-> NoMessage, user_question |-> <<>>, gemini_text |-> None,
     chunks |-> <<>>, idx |-> 0, sends |-> <<>>, calls |-> 0, provider |-> "none",
     outcome |-> "none"]

\* f"Thinking... (asking Gemini about: '{user_question}')"
Thinking(q) == THINKING_HEAD \o q \o THINKING_TAIL

\* f"```\n{chunk}\n```"
Fence(chunk) == FENCE_OPEN \o chunk \o FENCE_CLOSE

\* f"Sorry, an error occurred while trying to get a response from Gemini: {e}"
Sorry(e) == SORRY_HEAD \o e

\* A variant of Chunks that cuts at the Discord limit itself, leaving no room for the fence.
ChunksOfLimit(text) ==
    LET starts == Range(Len(text), DiscordLimit)
    IN  [k \in 1..Len(starts) |-> Slice(text, starts[k], starts[k] + DiscordLimit)]

\* A variant of Chunks whose slices stop one character early.
ChunksShort(text) ==
    LET starts == Range(Len(text), ChunkSize)
    IN  [k \in 1..Len(starts) |-> Slice(text, starts[k], starts[k] + ChunkSize - 1)]

\* [gemini_text[i:i+1990] for i in range(0, len(gemini_text), 1990)]
Chunks(text) ==
    LET starts == Range(Len(text), ChunkSize)
    IN  [k \in 1..Len(starts) |-> Slice(text, starts[k], starts[k] + ChunkSize)]

\* The coroutine calls message.channel.send(content) at the given line and awaits it.
Send(t, line, content) ==
    [t EXCEPT !.pc = "await", !.sends = Append(@, [line |-> line, content |-> content])]

\* The coroutine returns.
Return(t) == [t EXCEPT !.pc = "done", !.outcome = "returned"]

\* An exception leaves on_message.
Raise(t) == [t EXCEPT !.pc = "done", !.outcome = "raised"]

\* A variant of IsOwnMessage for a handler without the self check.
IsOwnMessageNever(m) == FALSE

\* Line 106: if message.author == discord_client.user: return
IsOwnMessage(m) == m.author = BOT

\* Line 110: message.content.startswith('!gemini ')
IsCommand(m) == StartsWith(m.content, PREFIX)

\* Lines 106-118: from the call of on_message to its first await, or its return.
OnMessage(m) ==
    LET t == [IdleTask EXCEPT !.message = m]
        q == Strip(Slice(m.content, Len(PREFIX), Len(m.content)))
    IN  IF IsOwnMessage(m) THEN Return(t)
        ELSE IF ~IsCommand(m) THEN Return(t)
        ELSE IF ~Truthy(q) THEN Send([t EXCEPT !.user_question = q], 114, USAGE_MSG)
        ELSE Send([t EXCEPT !.user_question = q], 118, Thinking(q))

\* Lines 130-132: the except clause.
Except(t, e) == Send(t, 132, Sorry(e))

\* Line 119: gemini_model.generate_content(user_question), a synchronous call.
Generate(t) == [t EXCEPT !.pc = "generate", !.calls = @ + 1]

\* Lines 125-126: the next iteration of the for loop, or its end.
NextChunk(t) ==
    IF t.idx < Len(t.chunks)
    THEN Send([t EXCEPT !.idx = @ + 1], 126, Fence(t.chunks[t.idx + 1]))
    ELSE Return(t)

\* The line of the send the coroutine is awaiting.
AwaitedLine(t) == t.sends[Len(t.sends)].line

\* The awaited send completed: the coroutine runs on to its next await, call or return.
AfterSend(t) ==
    CASE AwaitedLine(t) = 114 -> Return(t)
      [] AwaitedLine(t) = 118 -> Generate(t)
      [] AwaitedLine(t) = 124 -> NextChunk([t EXCEPT !.chunks = Chunks(t.gemini_text)])
      [] AwaitedLine(t) = 126 -> NextChunk(t)
      [] AwaitedLine(t) = 128 -> Return(t)
      [] AwaitedLine(t) = 132 -> Return(t)

\* The awaited send raised e: inside the try block the except clause runs, elsewhere the
\* exception leaves on_message.
AfterSendRaised(t, e) ==
    IF AwaitedLine(t) \in {118, 124, 126, 128} THEN Except(t, e) ELSE Raise(t)

\* Lines 120-128: generate_content returned a response whose text is the given one.
AfterGenerate(t, text) ==
    LET u == [t EXCEPT !.gemini_text = text, !.provider = "ok"]
    IN  IF Len(text) > DiscordLimit THEN Send(u, 124, TOO_LONG_MSG)
        ELSE Send(u, 128, text)

\* Lines 119-120 raised e (the call, or reading response.text).
AfterGenerateRaised(t, e) == Except([t EXCEPT !.provider = "error"], e)

----------------------------------------------------------------------------
(* The inputs of the model *)

\* What a user may type: plain chat, the prefix without its space (alone and run into a
\* word), the bare prefix, the prefix and a space, and a question with spaces around it.
InboundContents ==
    {<<"a">>,
     SubSeq(PREFIX, 1, Len(PREFIX) - 1),
     SubSeq(PREFIX, 1, Len(PREFIX) - 1) \o <<"a">>,
     PREFIX,
     PREFIX \o <<" ">>,
     PREFIX \o <<" ", "a", " ">>}

InboundMessages == [author : {BOT, USER}, content : InboundContents]

\* The completion texts the provider returns: empty, and one that itself reads as a
\* command. (The texts of every length up to MaxTextLen are SweepSpec's.)
ReplyTexts == {<<>>, PREFIX \o <<"a">>}

\* str(e) of the exceptions the provider and channel.send raise.
ProviderError == <<"q", "u", "o", "t", "a">>
SendError == <<"5", "0", "3">>

\* request.json of a POST to /ask_gemini_web: a JSON object with or without 'question'.
EmptyDict == [k \in {} |-> None]
JsonBodies == {EmptyDict} \cup {[question |-> q] : q \in {<<>>, <<"a">>}}

\* dict.get(key)
DictGet(d, key) == IF key \in DOMAIN d THEN d[key] ELSE None

----------------------------------------------------------------------------
(* The process: module level (lines 16-46) and the main block (lines 150-165) *)

Tasks == 1..MaxTasks
WebThreads == 1..MaxWebThreads

IdleThread ==
    [pc |-> "idle", body |-> EmptyDict, calls |-> 0, provider |-> "none", status |-> 0,
     reply |-> [key |-> "", value |-> <<>>]]

NoResponse == [status |-> 0, doc |-> [status |-> "", discord_status |-> ""]]

\* The messages and requests the process has received and not yet finished with.
InFlight ==
    Len(pending) + Cardinality({k \in Tasks : tasks[k].pc # "idle"})
        + Cardinality({w \in WebThreads : web[w].pc # "idle"})
        + (IF health # NoResponse THEN 1 ELSE 0)

KEY_ERROR == "Error: GEMINI_API_KEY environment variable not set."
TOKEN_ERROR == "Error: DISCORD_BOT_TOKEN environment variable not set."

Init ==
    /\ GEMINI_API_KEY \in {None, <<>>, <<"k">>}
    /\ DISCORD_BOT_TOKEN \in {None, <<>>, <<"t">>}
    /\ main_pc = "line 27"
    /\ exit_line = 0
    /\ exit_code = -1
    /\ stdout = <<>>
    /\ flask_thread = "not started"
    /\ discord_ready = FALSE
    /\ pending = <<>>
    /\ tasks = [k \in Tasks |-> IdleTask]
    /\ web = [w \in WebThreads |-> IdleThread]
    /\ health = NoResponse

\* The process ends: its threads, its event loop and its memory go with it.
Exit(line, code) ==
    /\ main_pc' = "exited"
    /\ exit_line' = line
    /\ exit_code' = code
    /\ flask_thread' = IF flask_thread = "serving" THEN "dead" ELSE flask_thread
    /\ discord_ready' = FALSE
    /\ pending' = <<>>
    /\ tasks' = [k \in Tasks |-> IdleTask]
    /\ web' = [w \in WebThreads |-> IdleThread]
    /\ health' = NoResponse
    /\ UNCHANGED <<GEMINI_API_KEY, DISCORD_BOT_TOKEN>>

\* Lines 27-31
ValidateKey ==
    /\ main_pc = "line 27"
    /\ IF ~Truthy(GEMINI_API_KEY)
       THEN stdout' = Append(stdout, KEY_ERROR) /\ Exit(31, 1)
       ELSE /\ main_pc' = "line 33"
            /\ UNCHANGED <<GEMINI_API_KEY, DISCORD_BOT_TOKEN, exit_line, exit_code, stdout,
                           flask_thread, discord_ready, pending, tasks, web, health>>

\* Lines 33-37
ValidateToken ==
    /\ main_pc = "line 33"
    /\ IF ~Truthy(DISCORD_BOT_TOKEN)
       THEN stdout' = Append(stdout, TOKEN_ERROR) /\ Exit(37, 1)
       ELSE /\ main_pc' = "line 154"
            /\ UNCHANGED <<GEMINI_API_KEY, DISCORD_BOT_TOKEN, exit_line, exit_code, stdout,
                           flask_thread, discord_ready, pending, tasks, web, health>>

\* Lines 154-156: the Flask thread is started and serves (run_flask_app, lines 87-93).
StartFlask ==
    /\ main_pc = "line 154"
    /\ flask_thread' = "serving"
    /\ main_pc' = "line 161"
    /\ UNCHANGED <<GEMINI_API_KEY, DISCORD_BOT_TOKEN, exit_line, exit_code, stdout,
                   discord_ready, pending, tasks, web, health>>

\* Lines 161, 138-141: discord_client.run(DISCORD_BOT_TOKEN) logs in and runs the loop.
LoginOk ==
    /\ main_pc = "line 161"
    /\ main_pc' = "run"
    /\ UNCHANGED <<GEMINI_API_KEY, DISCORD_BOT_TOKEN, exit_line, exit_code, stdout,
                   flask_thread, discord_ready, pending, tasks, web, health>>

\* Lines 142-145: discord.errors.LoginFailure
LoginFailure ==
    /\ main_pc = "line 161"
    /\ Exit(145, 1)
    /\ UNCHANGED stdout

\* Lines 146-148: any other exception out of discord_client.run
RunRaises ==
    /\ main_pc = "run"
    /\ Exit(148, 1)
    /\ UNCHANGED stdout

\* Lines 163-165: discord_client.run returned; the main thread ends and, the Flask
\* thread being a daemon, so does the process.
RunReturns ==
    /\ main_pc = "run"
    /\ Exit(165, 0)
    /\ UNCHANGED stdout

\* The gateway session becomes ready (on_ready, lines 97-101) or is lost.
Connect ==
    /\ main_pc = "run"
    /\ ~discord_ready
    /\ discord_ready' = TRUE
    /\ UNCHANGED <<GEMINI_API_KEY, DISCORD_BOT_TOKEN, main_pc, exit_line, exit_code, stdout,
                   flask_thread, pending, tasks, web, health>>

Disconnect ==
    /\ main_pc = "run"
    /\ discord_ready
    /\ discord_ready' = FALSE
    /\ UNCHANGED <<GEMINI_API_KEY, DISCORD_BOT_TOKEN, main_pc, exit_line, exit_code, stdout,
                   flask_thread, pending, tasks, web, health>>

----------------------------------------------------------------------------
(* The event loop of discord_client.run: one thread, one coroutine running at a time *)

\* A coroutine is inside the synchronous generate_content call: nothing else on the
\* loop runs until it returns.
LoopBlocked == \E k \in Tasks : tasks[k].pc = "generate"

LoopVars == <<GEMINI_API_KEY, DISCORD_BOT_TOKEN, main_pc, exit_line, exit_code, stdout,
              flask_thread, discord_ready, web, health>>

\* The gateway delivers a MESSAGE_CREATE event to the client's socket.
Arrive(m) ==
    /\ main_pc = "run"
    /\ discord_ready
    /\ Len(pending) < MaxPending
    /\ InFlight < MaxInFlight
    /\ pending' = Append(pending, m)
    /\ UNCHANGED <<LoopVars, tasks>>

\* The loop reads the event and calls on_message (lines 103-118).
Dispatch(k) ==
    /\ main_pc = "run"
    /\ ~LoopBlocked
    /\ pending # <<>>
    /\ tasks[k].pc = "idle"
    /\ \A j \in Tasks : j < k => tasks[j].pc # "idle"
    /\ tasks' = [tasks EXCEPT ![k] = OnMessage(Head(pending))]
    /\ pending' = Tail(pending)
    /\ UNCHANGED LoopVars

\* An awaited channel.send completed and its coroutine is resumed.
SendCompletes(k) ==
    /\ main_pc = "run"
    /\ ~LoopBlocked
    /\ tasks[k].pc = "await"
    /\ tasks' = [tasks EXCEPT ![k] = AfterSend(tasks[k])]
    /\ UNCHANGED <<LoopVars, pending>>

\* An awaited channel.send raised and its coroutine is resumed with the exception.
SendRaises(k) ==
    /\ main_pc = "run"
    /\ ~LoopBlocked
    /\ tasks[k].pc = "await"
    /\ tasks' = [tasks EXCEPT ![k] = AfterSendRaised(tasks[k], SendError)]
    /\ UNCHANGED <<LoopVars, pending>>

\* generate_content returns (line 119) and the coroutine runs on to its next await.
GenerateReturns(k, text) ==
    /\ main_pc = "run"
    /\ tasks[k].pc = "generate"
    /\ tasks' = [tasks EXCEPT ![k] = AfterGenerate(tasks[k], text)]
    /\ UNCHANGED <<LoopVars, pending>>

\* generate_content raises.
GenerateRaises(k) ==
    /\ main_pc = "run"
    /\ tasks[k].pc = "generate"
    /\ tasks' = [tasks EXCEPT ![k] = AfterGenerateRaised(tasks[k], ProviderError)]
    /\ UNCHANGED <<LoopVars, pending>>

\* A finished coroutine is dropped by the loop (an exception it raised is logged by
\* discord.py's event dispatcher).
TaskEnds(k) ==
    /\ main_pc = "run"
    /\ ~LoopBlocked
    /\ tasks[k].pc = "done"
    /\ tasks' = [tasks EXCEPT ![k] = IdleTask]
    /\ UNCHANGED <<LoopVars, pending>>

----------------------------------------------------------------------------
(* The Flask routes, lines 53-85, each request served by a thread of its own *)

WebVars == <<GEMINI_API_KEY, DISCORD_BOT_TOKEN, main_pc, exit_line, exit_code, stdout,
             flask_thread, discord_ready, pending, tasks>>

\* jsonify(...), status
Reply(th, status, key, value) ==
    [th EXCEPT !.pc = "responded", !.status = status,
               !.reply = [key |-> key, value |-> value]]

\* Lines 65-70: from the request to the call of generate_content, or the 400 reply.
AskGeminiWeb(body) ==
    LET th == [IdleThread EXCEPT !.body = body]
        user_question == DictGet(body, "question")
    IN  IF ~Truthy(user_question) THEN Reply(th, 400, "error", NO_QUESTION)
        ELSE [th EXCEPT !.pc = "generate", !.calls = @ + 1]

\* Line 71
AfterWebGenerate(th, text) ==
    Reply([th EXCEPT !.provider = "ok"], 200, "response", text)

\* A variant of AfterWebGenerateRaised that reports the failure with the default status.
AfterWebGenerateRaisedOk(th, e) ==
    Reply([th EXCEPT !.provider = "error"], 200, "error", WEB_ERROR_HEAD \o e)

\* Lines 72-74
AfterWebGenerateRaised(th, e) ==
    Reply([th EXCEPT !.provider = "error"], 500, "error", WEB_ERROR_HEAD \o e)

\* A variant of HealthDoc that does not ask the client and always reports 'connected'.
HealthDocConnected(ready) ==
    [status |-> 200, doc |-> [status |-> "healthy", discord_status |-> "connected"]]

\* Lines 79-85: jsonify without a status is a 200.
HealthDoc(ready) ==
    [status |-> 200,
     doc |-> [status |-> "healthy",
              discord_status |-> IF ready THEN "connected" ELSE "disconnected"]]

WebRequest(w, body) ==
    /\ flask_thread = "serving"
    /\ web[w].pc = "idle"
    /\ InFlight < MaxInFlight
    /\ web' = [web EXCEPT ![w] = AskGeminiWeb(body)]
    /\ UNCHANGED <<WebVars, health>>

WebGenerateReturns(w, text) ==
    /\ flask_thread = "serving"
    /\ web[w].pc = "generate"
    /\ web' = [web EXCEPT ![w] = AfterWebGenerate(web[w], text)]
    /\ UNCHANGED <<WebVars, health>>

WebGenerateRaises(w) ==
    /\ flask_thread = "serving"
    /\ web[w].pc = "generate"
    /\ web' = [web EXCEPT ![w] = AfterWebGenerateRaised(web[w], ProviderError)]
    /\ UNCHANGED <<WebVars, health>>

\* The reply has been written to the client and the worker thread ends.
WebResponds(w) ==
    /\ flask_thread = "serving"
    /\ web[w].pc = "responded"
    /\ web' = [web EXCEPT ![w] = IdleThread]
    /\ UNCHANGED <<WebVars, health>>

\* GET /health
HealthCheck ==
    /\ flask_thread = "serving"
    /\ health = NoResponse
    /\ InFlight < MaxInFlight
    /\ health' = HealthDoc(discord_ready)
    /\ UNCHANGED <<WebVars, web>>

HealthResponds ==
    /\ flask_thread = "serving"
    /\ health # NoResponse
    /\ health' = NoResponse
    /\ UNCHANGED <<WebVars, web>>

----------------------------------------------------------------------------
(* The whole program *)

Next ==
    \/ ValidateKey
    \/ ValidateToken
    \/ StartFlask
    \/ LoginOk
    \/ LoginFailure
    \/ RunRaises
    \/ RunReturns
    \/ Connect
    \/ Disconnect
    \/ \E m \in InboundMessages : Arrive(m)
    \/ \E k \in Tasks : Dispatch(k)
    \/ \E k \in Tasks : SendCompletes(k)
    \/ \E k \in Tasks : SendRaises(k)
    \/ \E k \in Tasks, text \in ReplyTexts : GenerateReturns(k, text)
    \/ \E k \in Tasks : GenerateRaises(k)
    \/ \E k \in Tasks : TaskEnds(k)
    \/ \E w \in WebThreads, body \in JsonBodies : WebRequest(w, body)
    \/ \E w \in WebThreads, text \in ReplyTexts : WebGenerateReturns(w, text)
    \/ \E w \in WebThreads : WebGenerateRaises(w)
    \/ \E w \in WebThreads : WebResponds(w)
    \/ HealthCheck
    \/ HealthResponds

Spec == Init /\ [][Next]_vars

\* The scheduling the code has: the event loop resumes a coroutine whose send has
\* finished and dispatches a received event whenever no coroutine holds the thread, and
\* Flask writes each reply. Nothing is assumed of generate_content: lines 70 and 119 pass
\* no timeout, so the call returns only if the provider answers.
FairSpec ==
    /\ Spec
    /\ WF_vars(\E k \in Tasks : Dispatch(k))
    /\ WF_vars(\E k \in Tasks : SendCompletes(k) \/ SendRaises(k))
    /\ WF_vars(\E k \in Tasks : TaskEnds(k))
    /\ WF_vars(\E w \in WebThreads : WebResponds(w))
    /\ WF_vars(HealthResponds)

----------------------------------------------------------------------------
(* on_message over every completion length, from a state Spec reaches: the bot is    *)
(* running and one coroutine has just called generate_content for the question 'a'.  *)

SweepInit ==
    /\ GEMINI_API_KEY = <<"k">>
    /\ DISCORD_BOT_TOKEN = <<"t">>
    /\ main_pc = "run"
    /\ exit_line = 0
    /\ exit_code = -1
    /\ stdout = <<>>
    /\ flask_thread = "serving"
    /\ discord_ready = TRUE
    /\ pending = <<>>
    /\ tasks = [k \in Tasks |->
                  IF k = 1
                  THEN AfterSend(OnMessage([author |-> USER,
                                            content |-> PREFIX \o <<" ", "a", " ">>]))
                  ELSE IdleTask]
    /\ web = [w \in WebThreads |-> IdleThread]
    /\ health = NoResponse

SweepNext ==
    \/ \E n \in 0..MaxTextLen : GenerateReturns(1, Pattern(n))
    \/ \E k \in Tasks : SendCompletes(k)
    \/ \E k \in Tasks : SendRaises(k)

SweepSpec == SweepInit /\ [][SweepNext]_vars

----------------------------------------------------------------------------
(* Properties *)

\* The sends that carry the completion text: line 126 (a fenced slice), line 128 (whole).
Answers(t) == SelectSeq(t.sends, LAMBDA s : s.line \in {126, 128})

\* The content starts with the opening fence and ends with the closing one.
IsFenced(c) ==
    /\ Len(c) >= Len(FENCE_OPEN) + Len(FENCE_CLOSE)
    /\ SubSeq(c, 1, Len(FENCE_OPEN)) = FENCE_OPEN
    /\ SubSeq(c, Len(c) - Len(FENCE_CLOSE) + 1, Len(c)) = FENCE_CLOSE

\* The part of the completion text a send carries.
Payload(s) ==
    IF s.line = 126
    THEN SubSeq(s.content, Len(FENCE_OPEN) + 1, Len(s.content) - Len(FENCE_CLOSE))
    ELSE s.content

Payloads(t) == [i \in 1..Len(Answers(t)) |-> Payload(Answers(t)[i])]

\* on_message returned without entering its except clause.
CompletedNormally(t) ==
    /\ t.pc = "done"
    /\ t.outcome = "returned"
    /\ \A i \in DOMAIN t.sends : t.sends[i].line # 132

Missing(v) == v = None \/ v = <<>>

\* The content is the command prefix followed by nothing but whitespace.
BlankCommand(c) ==
    /\ Len(c) >= Len(PREFIX)
    /\ SubSeq(c, 1, Len(PREFIX)) = PREFIX
    /\ \A i \in (Len(PREFIX) + 1)..Len(c) : c[i] \in Whitespace

\* C1: every message on_message passes to channel.send to carry the completion text (the
\* whole text, or a fenced slice of it) is at most 2000 characters long.
C1_AnswersWithinLimit ==
    \A k \in Tasks :
        tasks[k].provider = "ok" =>
            \A i \in DOMAIN tasks[k].sends :
                tasks[k].sends[i].line \in {126, 128} =>
                    Len(tasks[k].sends[i].content) <= DiscordLimit

\* A text longer than the limit was sent in parts, one of them a full slice in its fence.
C1_Witness ==
    \E k \in Tasks :
        /\ CompletedNormally(tasks[k])
        /\ tasks[k].provider = "ok"
        /\ Len(tasks[k].gemini_text) > DiscordLimit
        /\ \E i \in DOMAIN tasks[k].sends :
               /\ tasks[k].sends[i].line = 126
               /\ Len(tasks[k].sends[i].content)
                      = ChunkSize + Len(FENCE_OPEN) + Len(FENCE_CLOSE)

\* C2: the parts of the completion text that on_message sends are consecutive pieces of
\* it in order: what has been sent so far is a prefix of the text, the list of chunks
\* concatenates to the text, each line-126 message is a chunk in its fence, and when
\* on_message completes normally the pieces sent add up to the whole text.
C2_ChunksReassemble ==
    \A k \in Tasks :
        LET t == tasks[k]
            joined == Concat(Payloads(t))
        IN  t.provider = "ok" =>
                /\ \A i \in DOMAIN t.sends : t.sends[i].line = 126 => IsFenced(t.sends[i].content)
                /\ Len(joined) <= Len(t.gemini_text)
                /\ joined = SubSeq(t.gemini_text, 1, Len(joined))
                /\ CompletedNormally(t) => joined = t.gemini_text
                /\ t.idx > 0 =>
                       /\ Concat(t.chunks) = t.gemini_text
                       /\ \A j \in DOMAIN t.chunks : t.chunks[j] # <<>>
                       /\ Payloads(t) = SubSeq(t.chunks, 1, t.idx)

\* A text whose length is no multiple of the chunk size was sent completely in three parts.
C2_Witness ==
    \E k \in Tasks :
        /\ CompletedNormally(tasks[k])
        /\ tasks[k].provider = "ok"
        /\ Len(tasks[k].gemini_text) > 2 * ChunkSize
        /\ Len(tasks[k].gemini_text) % ChunkSize # 0
        /\ Len(Answers(tasks[k])) = 3

\* C3: when the provider call fails, on_message sends exactly one message, a failure
\* notice, and no exception leaves on_message.
C3_OneFailureMessage ==
    \A k \in Tasks :
        LET t == tasks[k]
        IN  t.provider = "error" =>
                /\ Len(t.sends) = 1
                /\ t.sends[1].line = 132
                /\ t.outcome # "raised"

\* C4: a Discord command with only whitespace after the prefix, and a web request with
\* no or an empty 'question', get the usage reply, and generate_content is not called.
C4_EmptyQuestionShortCircuits ==
    /\ \A k \in Tasks :
           LET t == tasks[k]
           IN  (t.pc # "idle" /\ t.message.author # BOT /\ BlankCommand(t.message.content)) =>
                   /\ t.calls = 0
                   /\ t.provider = "none"
                   /\ t.sends = <<[line |-> 114, content |-> USAGE_MSG]>>
    /\ \A w \in WebThreads :
           LET th == web[w]
           IN  (th.pc # "idle"
                   /\ ("question" \notin DOMAIN th.body \/ Missing(th.body["question"]))) =>
                   /\ th.calls = 0
                   /\ th.provider = "none"
                   /\ th.pc = "responded"
                   /\ th.reply = [key |-> "error", value |-> NO_QUESTION]

\* Both ingress paths have answered an empty question: '!gemini ' followed by a space on
\* Discord, and an empty 'question' on the web.
C4_Witness ==
    /\ \E k \in Tasks :
           /\ tasks[k].pc = "done"
           /\ tasks[k].message = [author |-> USER, content |-> PREFIX \o <<" ">>]
    /\ \E w \in WebThreads :
           /\ web[w].pc = "responded"
           /\ web[w].body = [question |-> <<>>]

\* C5: a provider call that is slow or never returns does not stall the relay: the
\* waiting call ends, every pending Discord message is dispatched, and every HTTP request
\* is answered.
C5_NoStall ==
    /\ (\E k \in Tasks : tasks[k].pc = "generate")
           ~> (\A k \in Tasks : tasks[k].pc # "generate")
    /\ (pending # <<>>) ~> (pending = <<>>)
    /\ (health # NoResponse) ~> (health = NoResponse)

\* C6: with GEMINI_API_KEY or DISCORD_BOT_TOKEN missing the process never starts the Flask
\* thread or the Discord client, and when it has ended it ended with status 1 after
\* printing the error that names the first missing variable; with both set, the process
\* ends only where discord_client.run ends (lines 145, 148, 165), and an exception out of
\* on_message or a failed web request leaves it running.
C6_RefusesToStart ==
    /\ (Missing(GEMINI_API_KEY) \/ Missing(DISCORD_BOT_TOKEN)) =>
           /\ flask_thread = "not started"
           /\ main_pc \in {"line 27", "line 33", "exited"}
           /\ ~discord_ready
           /\ main_pc = "exited" =>
                  /\ exit_code = 1
                  /\ exit_line = IF Missing(GEMINI_API_KEY) THEN 31 ELSE 37
                  /\ stdout = <<IF Missing(GEMINI_API_KEY) THEN KEY_ERROR ELSE TOKEN_ERROR>>
    /\ (~Missing(GEMINI_API_KEY) /\ ~Missing(DISCORD_BOT_TOKEN)) =>
           /\ stdout = <<>>
           /\ main_pc = "exited" => exit_line \in {145, 148, 165}
           /\ (\E k \in Tasks : tasks[k].outcome = "raised") => main_pc = "run"
           /\ (\E w \in WebThreads : web[w].status = 500) => main_pc \in {"line 161", "run"}

\* The key is set, the token is the empty string, and the process has exited.
C6_Witness ==
    /\ ~Missing(GEMINI_API_KEY)
    /\ DISCORD_BOT_TOKEN = <<>>
    /\ main_pc = "exited"

\* C7 as stated: every reply of /ask_gemini_web has status 200.
C7_Always200 == \A w \in WebThreads : web[w].pc = "responded" => web[w].status = 200

\* C7, amended: the status is 400 for a missing or empty question, 500 when the provider
\* call failed and 200 when it succeeded; both errors are also named in the reply body.
C7_StatusByOutcome ==
    \A w \in WebThreads :
        LET th == web[w]
            missing == "question" \notin DOMAIN th.body \/ Missing(th.body["question"])
        IN  th.pc = "responded" =>
                /\ th.status = (IF missing THEN 400 ELSE IF th.provider = "ok" THEN 200 ELSE 500)
                /\ th.status # 200 <=> th.reply.key = "error"
                /\ th.status = 200 <=> th.reply.key = "response"
                /\ ~missing => th.provider \in {"ok", "error"}

\* A provider failure was answered with status 500.
C7_Witness ==
    \E w \in WebThreads :
        /\ web[w].pc = "responded"
        /\ web[w].provider = "error"
        /\ web[w].status = 500

\* C8: every reply of /health has status 200, overall status 'healthy', and
\* discord_status 'connected' exactly when the client is ready as the request is served.
C8_HealthReply ==
    [][(health = NoResponse /\ health' # NoResponse) =>
           /\ health'.status = 200
           /\ health'.doc.status = "healthy"
           /\ health'.doc.discord_status \in {"connected", "disconnected"}
           /\ health'.doc.discord_status = "connected" <=> discord_ready]_vars

\* /health answered 'disconnected' while an on_message call was inside generate_content.
C8_Witness ==
    /\ LoopBlocked
    /\ ~discord_ready
    /\ health # NoResponse
    /\ health.doc.discord_status = "disconnected"

\* C9: an empty completion text is never passed to channel.send, and a text of 1 to 2000
\* characters is sent as exactly one message.
C9_NoEmptyAnswer ==
    \A k \in Tasks :
        LET t == tasks[k]
        IN  t.provider = "ok" =>
                /\ \A i \in DOMAIN t.sends :
                       t.sends[i].line \in {126, 128} => t.sends[i].content # <<>>
                /\ (CompletedNormally(t) /\ Len(t.gemini_text) \in 1..DiscordLimit) =>
                       Len(Answers(t)) = 1

\* C10: for a message of the bot itself, or one whose content does not start with
\* '!gemini ', on_message neither calls generate_content nor sends anything.
C10_OnlyCommandsOfOthers ==
    \A k \in Tasks :
        LET t == tasks[k]
            prefixed == /\ Len(t.message.content) >= Len(PREFIX)
                        /\ SubSeq(t.message.content, 1, Len(PREFIX)) = PREFIX
        IN  /\ (t.pc # "idle" /\ (t.message.author = BOT \/ ~prefixed)) =>
                   /\ t.calls = 0
                   /\ t.sends = <<>>
                   /\ t.pc = "done"
                   /\ t.outcome = "returned"
            /\ (t.calls > 0 \/ t.sends # <<>>) => (t.message.author # BOT /\ prefixed)

\* on_message has returned for a message of the bot itself that reads '!gemini  a '.
C10_Witness ==
    \E k \in Tasks :
        /\ tasks[k].pc = "done"
        /\ tasks[k].message = [author |-> BOT, content |-> PREFIX \o <<" ", "a", " ">>]

=============================================================================
